---------------------------- MODULE Spec2Model ----------------------------
(* Model of the live session client, backend/app/static/app.js: the capture  *)
(* arbiter (mic / camera / screen toggles and device acquisition), the       *)
(* session controller (start / confirm / stop button, socket handlers) and   *)
(* the audio playback scheduler.                                             *)
(*                                                                           *)
(* Every click handler, socket handler and timer callback is one macrotask.  *)
(* An async handler runs synchronously up to its first await of a browser    *)
(* promise (getUserMedia, getDisplayMedia, AudioContext.resume, fetch, the   *)
(* socket's open event); there it is parked in `tasks` and a later action    *)
(* resumes it with the promise's outcome. Awaits of the file's own async     *)
(* functions that contain no browser await only defer to the microtask       *)
(* queue, which drains before the next macrotask, so they do not interleave  *)
(* with other handlers and are part of the same action.                      *)
EXTENDS Integers, Sequences, FiniteSets, Bags, TLC

\* ---------------------------------------------------------------- bounds
MaxTasks == 2
MaxSockets == 1
MaxClock == 3
MaxChunks == 3
MaxBytes == 4
MaxBlock == 4
MaxOverlap == 2

VARIABLES
  appState,      \* the appState object
  sock,          \* readyState of every WebSocket created so far
  graceTimer,    \* open sockets with a pending 1200 ms force-close timeout
  tasks,         \* the bag of async handlers parked at an await
  leaked,        \* the sources with a live stream appState no longer references
  currentTime,   \* appState.audioContext.currentTime, in frames
  scheduled,     \* source.start(startAt) calls since playbackCursor was reset
  audioCaption,  \* elements.captions holds an "unsupported audio format" entry
  statusReceived, \* the sockets a server.status has been received on
  riskBadge,     \* elements.riskBadge.textContent
  errorCaption,  \* the text of the "Error" caption the last step appended
  snapshotDisabled, \* elements.snapshot.disabled
  statusCaption,  \* the caption the last step appended from
                  \* captureScreenshot or the screen track's ended listener
  block,         \* the block of the script processor: its input samples
                 \* and the context's rate, and what the last step's
                 \* onaudioprocess made of them
  out,           \* the message the last step passed to ws.send, if any
  sentOn         \* the open sockets client.init has been sent on, and those
                 \* client.stop has been sent on

vars == <<appState, sock, graceTimer, tasks, leaked, currentTime, scheduled,
          audioCaption, statusReceived, riskBadge, errorCaption,
          snapshotDisabled, statusCaption, block, out, sentOn>>

\* The sockets createLiveSocket() can give out: MaxSockets of them, and in
\* the overlap specification MaxOverlap.
Sockets == DOMAIN sock

\* ------------------------------------------------------------- constants
\* The skills of the model: one that has a capture rule with requiresCamera,
\* one that has none.
Modes == {"READ_TEXT", "REORIENT"}

skillCaptureRules == [READ_TEXT |-> TRUE, REORIENT |-> FALSE]

\* The risk levels a server.status message announces.
RiskModes == {"NORMAL", "CAUTION", "REFUSE"}

\* The text setRiskBadge(mode) leaves in elements.riskBadge.
setRiskBadge(mode) == mode

\* The captions of captureScreenshot and of the ended listener of a screen
\* track; NoCaption when a step appends none.
NoCaption == ""

ScreenStopped == "Screen sharing stopped."

SnapNoSession == "Start a live session before capturing a screenshot."

SnapNoSource ==
  "Turn on camera or screen sharing before capturing a screenshot."

SnapNoFrame ==
  "Wait for the live preview to appear before capturing a screenshot."

SnapCaptured == "Captured one still frame for analysis."

NoMsg == [sock |-> 0, type |-> "none"]

\* What sentOn is before anything is sent, and after a step that sent msg
\* and left the sockets in the readyStates sk.
NothingSent == [init |-> {}, stop |-> {}]

Logged(log, msg, sk) ==
  [init |-> {s \in log.init \cup (IF msg.type = "client.init"
                                    THEN {msg.sock} ELSE {}) :
               sk[s] = "OPEN"},
   stop |-> {s \in log.stop \cup (IF msg.type = "client.stop"
                                    THEN {msg.sock} ELSE {}) :
               sk[s] = "OPEN"}]

\* No block was processed in the step.
NoBlock ==
  [input |-> <<>>, sampleRate |-> 0, downsampled |-> <<>>, payload |-> <<>>]

\* The texts of the "Error" captions; NoError when a step appends none.
NoError == ""

ErrSignIn == "Sign in before starting a session."

ErrNoSource == "Turn on mic, camera, or screen sharing before starting."

ErrNeedsVisual == "Turn on camera or screen sharing for this skill"

ErrSessionCreate == "Session create failed"

ErrSocket == "WebSocket connection failed"

ErrScreenUnsupported == "Screen sharing is not supported in this browser."

\* The message of the error a rejected getUserMedia / getDisplayMedia or a
\* throwing ws.send carries, and of an inbound error message.
ErrDevice == "device request rejected"

ErrSend == "send failed"

ErrServer == "server error"

ErrUnreadable == "Received an unreadable websocket message."

\* A handler of the given kind, not yet parked anywhere.
Handler(kind) == [kind |-> kind, pc |-> "run", nextValue |-> FALSE, ws |-> 0]

\* ---------------------------------------------------------- pure helpers
\* sessionRunning that looks at appState.ws alone, not at its readyState.
sessionRunningIn_AnyState(a, sk) == a.ws # 0

sessionRunningIn(a, sk) == a.ws # 0 /\ sk[a.ws] = "OPEN"

sessionRunning == sessionRunningIn(appState, sock)

hasVisualSourceEnabledIn(a) == a.cameraEnabled \/ a.screenEnabled

hasVisualSourceEnabled == hasVisualSourceEnabledIn(appState)

\* refreshMediaButtons: the value it gives elements.snapshot.disabled.
refreshMediaButtons(a, sk) ==
  ~sessionRunningIn(a, sk) \/ ~hasVisualSourceEnabledIn(a)

selectedSkillNeedsVisualSource(mode) == skillCaptureRules[mode]

\* primaryActionState offering confirm in every running session.
primaryActionState_AlwaysConfirm ==
  IF ~sessionRunning THEN "start" ELSE "confirm"

primaryActionState ==
  IF ~sessionRunning THEN "start"
  ELSE IF appState.assistantResponseReady THEN "confirm" ELSE "stop"

Parked == BagToSet(tasks)

Idle == Parked = {}

HasFreeTask == BagCardinality(tasks) < MaxTasks

FreeSocket == CHOOSE s \in Sockets : sock[s] = "NONE" /\
                 \A u \in Sockets : sock[u] = "NONE" => s <= u

\* ------------------------------------------------- synchronous operations
\* Each takes the appState record (and the sockets' readyState) and returns
\* the appState record it leaves.

\* appState.videoTimer is whether the field holds an interval id;
\* a.intervals counts the intervals setInterval has installed and
\* clearInterval has not cleared (it is not a field of the object).

\* restartVisualFrameTimer that drops the id without clearInterval.
restartVisualFrameTimer_NoClear(a, sk) ==
  LET a1 == [a EXCEPT !.videoTimer = FALSE]
  IN  IF ~sessionRunningIn(a1, sk) \/ ~hasVisualSourceEnabledIn(a1)
        THEN a1
        ELSE [a1 EXCEPT !.videoTimer = TRUE, !.intervals = @ + 1]

restartVisualFrameTimer(a, sk) ==
  LET a1 == IF a.videoTimer
              THEN [a EXCEPT !.videoTimer = FALSE, !.intervals = @ - 1]
              ELSE a
  IN  IF ~sessionRunningIn(a1, sk) \/ ~hasVisualSourceEnabledIn(a1)
        THEN a1
        ELSE [a1 EXCEPT !.videoTimer = TRUE, !.intervals = @ + 1]

disableMicCapture(a) == [a EXCEPT !.micStream = FALSE]

stopCameraCapture(a) == [a EXCEPT !.camStream = FALSE]

\* stopScreenCapture without its restartVisualFrameTimer() call.
stopScreenCapture_NoRestart(a, sk) == [a EXCEPT !.screenStream = FALSE]

stopScreenCapture(a, sk) ==
  restartVisualFrameTimer([a EXCEPT !.screenStream = FALSE], sk)

stopMedia(a, sk) ==
  LET a1 == IF a.videoTimer
              THEN [a EXCEPT !.videoTimer = FALSE, !.intervals = @ - 1]
              ELSE a
      a2 == disableMicCapture(a1)
      a3 == stopScreenCapture(a2, sk)
  IN  stopCameraCapture(a3)

setRunningState(a, isRunning) ==
  IF isRunning THEN a ELSE [a EXCEPT !.assistantResponseReady = FALSE]

\* markAssistantResponseReady without its early return: it flips the flag.
markAssistantResponseReady_Flip(a) ==
  [a EXCEPT !.assistantResponseReady = ~a.assistantResponseReady]

markAssistantResponseReady(a) == [a EXCEPT !.assistantResponseReady = TRUE]

\* stopSession that never closes the socket itself.
stopSession_NoClose(a, sk, gt, notifyServer) ==
  LET activeSocket == a.ws
      notified == notifyServer /\ activeSocket # 0 /\ sk[activeSocket] = "OPEN"
      a1 == stopMedia(a, sk)
      a2 == IF activeSocket # 0
              THEN [a1 EXCEPT !.ws = 0, !.sessionId = 0]
              ELSE a1
  IN  [a   |-> setRunningState(a2, FALSE),
       sk  |-> sk,
       gt  |-> IF notified THEN gt \cup {activeSocket} ELSE gt,
       out |-> IF notified
                 THEN [sock |-> activeSocket, type |-> "client.stop"]
                 ELSE NoMsg]

\* stopSession that keeps appState.ws and appState.sessionId after a
\* client.stop.
stopSession_KeepWs(a, sk, gt, notifyServer) ==
  LET activeSocket == a.ws
      notified == notifyServer /\ activeSocket # 0 /\ sk[activeSocket] = "OPEN"
      a1 == stopMedia(a, sk)
      a2 == IF activeSocket # 0 /\ ~notified
              THEN [a1 EXCEPT !.ws = 0, !.sessionId = 0]
              ELSE a1
      closes == activeSocket # 0 /\ ~notifyServer
                /\ sk[activeSocket] \in {"CONNECTING", "OPEN"}
  IN  [a   |-> setRunningState(a2, FALSE),
       sk  |-> IF closes THEN [sk EXCEPT ![activeSocket] = "CLOSING"] ELSE sk,
       gt  |-> IF notified THEN gt \cup {activeSocket} ELSE gt,
       out |-> IF notified
                 THEN [sock |-> activeSocket, type |-> "client.stop"]
                 ELSE NoMsg]

\* stopSession: the record of what it leaves: appState, the sockets, the
\* grace timers and the message it sent.
stopSession(a, sk, gt, notifyServer) ==
  LET activeSocket == a.ws
      notified == notifyServer /\ activeSocket # 0 /\ sk[activeSocket] = "OPEN"
      a1 == stopMedia(a, sk)
      a2 == IF activeSocket # 0
              THEN [a1 EXCEPT !.ws = 0, !.sessionId = 0]
              ELSE a1
      closes == activeSocket # 0 /\ ~notifyServer
                /\ sk[activeSocket] \in {"CONNECTING", "OPEN"}
  IN  [a   |-> setRunningState(a2, FALSE),
       sk  |-> IF closes THEN [sk EXCEPT ![activeSocket] = "CLOSING"] ELSE sk,
       gt  |-> IF notified THEN gt \cup {activeSocket} ELSE gt,
       out |-> IF notified
                 THEN [sock |-> activeSocket, type |-> "client.stop"]
                 ELSE NoMsg]

\* ------------------------------------------------- async operations
\* The synchronous prefix of an async function: the appState it leaves and
\* where the caller is then: "done" (returned), "throw", or the browser
\* promise it awaits.
WaitPcs == {"createSession", "open", "getUserMedia.audio",
            "getUserMedia.video", "getDisplayMedia"}

\* ensureAudioContext's await of resume() and the await of getUserMedia
\* follow each other with no access to appState in between: one wait.
enableMicCapture(a, sk) ==
  IF ~a.micEnabled \/ ~sessionRunningIn(a, sk) \/ a.micStream
    THEN [a |-> a, pc |-> "done"]
    ELSE [a  |-> [a EXCEPT !.audioContext = TRUE],
          pc |-> "getUserMedia.audio"]

\* The end of syncVisualCapture: updatePreviewSource, restartVisualFrameTimer.
syncVisualCaptureEnd(a, sk) ==
  [a |-> restartVisualFrameTimer(a, sk), pc |-> "done"]

syncVisualCapture(a, sk, supported) ==
  IF ~sessionRunningIn(a, sk) THEN [a |-> a, pc |-> "done"]
  ELSE IF a.screenEnabled
    THEN IF a.screenStream
           THEN syncVisualCaptureEnd(stopCameraCapture(a), sk)
           ELSE IF ~supported
             THEN [a |-> a, pc |-> "throw", error |-> ErrScreenUnsupported]
             ELSE [a |-> a, pc |-> "getDisplayMedia"]
    ELSE LET a1 == stopScreenCapture(a, sk)
         IN  IF a1.cameraEnabled
               THEN IF a1.camStream
                      THEN syncVisualCaptureEnd(a1, sk)
                      ELSE [a |-> a1, pc |-> "getUserMedia.video"]
               ELSE syncVisualCaptureEnd(stopCameraCapture(a1), sk)

\* catch with the camera and screen handlers inverting the flag, as the
\* mic handler does, instead of restoring !nextValue.
catch_Invert(a, sk, gt, task) ==
  CASE task.kind = "mic" ->
         [a |-> [a EXCEPT !.micEnabled = ~a.micEnabled],
          sk |-> sk, gt |-> gt, out |-> NoMsg]
    [] task.kind = "camera" ->
         [a |-> [a EXCEPT !.cameraEnabled = ~a.cameraEnabled],
          sk |-> sk, gt |-> gt, out |-> NoMsg]
    [] task.kind = "screen" ->
         [a |-> [a EXCEPT !.screenEnabled = ~a.screenEnabled],
          sk |-> sk, gt |-> gt, out |-> NoMsg]
    [] OTHER -> stopSession(a, sk, gt, FALSE)

\* catch with a start handler that reports the error and tears nothing
\* down.
catch_NoTeardown(a, sk, gt, task) ==
  CASE task.kind = "mic" ->
         [a |-> [a EXCEPT !.micEnabled = ~a.micEnabled],
          sk |-> sk, gt |-> gt, out |-> NoMsg]
    [] task.kind = "camera" ->
         [a |-> [a EXCEPT !.cameraEnabled = ~task.nextValue],
          sk |-> sk, gt |-> gt, out |-> NoMsg]
    [] task.kind = "screen" ->
         [a |-> [a EXCEPT !.screenEnabled = ~task.nextValue],
          sk |-> sk, gt |-> gt, out |-> NoMsg]
    [] OTHER -> [a |-> a, sk |-> sk, gt |-> gt, out |-> NoMsg]

\* The catch block of the handler of the given kind, run on appState a.
catch(a, sk, gt, task) ==
  CASE task.kind = "mic" ->
         [a |-> [a EXCEPT !.micEnabled = ~a.micEnabled],
          sk |-> sk, gt |-> gt, out |-> NoMsg]
    [] task.kind = "camera" ->
         [a |-> [a EXCEPT !.cameraEnabled = ~task.nextValue],
          sk |-> sk, gt |-> gt, out |-> NoMsg]
    [] task.kind = "screen" ->
         [a |-> [a EXCEPT !.screenEnabled = ~task.nextValue],
          sk |-> sk, gt |-> gt, out |-> NoMsg]
    [] OTHER -> stopSession(a, sk, gt, FALSE)

\* A handler's next state from the outcome r of the async call it made: it
\* parks at the promise r.pc names, runs its catch block, or finishes.
\* rest is the bag of the other parked handlers.
Settle(rest, task, r, sk, gt, msg) ==
  IF r.pc = "throw"
    THEN LET c == catch(r.a, sk, gt, task)
         IN  /\ appState' = c.a
             /\ sock' = c.sk
             /\ graceTimer' = c.gt
             /\ out' = IF c.out # NoMsg THEN c.out ELSE msg
             /\ errorCaption' = r.error
             /\ statusCaption' = NoCaption
             /\ block' = NoBlock
             /\ snapshotDisabled' = refreshMediaButtons(c.a, c.sk)
             /\ tasks' = rest
    ELSE /\ appState' = r.a
         /\ sock' = sk
         /\ graceTimer' = gt
         /\ out' = msg
         /\ errorCaption' = NoError
         /\ statusCaption' = NoCaption
         /\ block' = NoBlock
         /\ snapshotDisabled' = IF r.pc \in WaitPcs
                                  THEN snapshotDisabled
                                  ELSE refreshMediaButtons(r.a, sk)
         /\ tasks' = IF r.pc \in WaitPcs
                       THEN rest (+) SetToBag({[task EXCEPT !.pc = r.pc]})
                       ELSE rest

\* The other parked handlers, when the parked handler `task` is resumed.
Others(task) == tasks (-) SetToBag({task})

\* --------------------------------------------------------- click handlers
\* elements.micToggle click
MicToggleClick ==
  LET a1 == [appState EXCEPT !.micEnabled = ~appState.micEnabled]
      r  == IF sessionRunningIn(a1, sock)
              THEN IF a1.micEnabled
                     THEN enableMicCapture(a1, sock)
                     ELSE [a |-> disableMicCapture(a1), pc |-> "done"]
              ELSE [a |-> a1, pc |-> "done"]
  IN  /\ r.pc \in WaitPcs => HasFreeTask
      /\ Settle(tasks, Handler("mic"), r, sock, graceTimer, NoMsg)
      /\ UNCHANGED <<leaked, currentTime, scheduled, audioCaption,
                   statusReceived, riskBadge>>
  /\ sentOn' = Logged(sentOn, out', sock')

\* elements.cameraToggle click
CameraToggleClick ==
  \E supported \in BOOLEAN :
    LET nextValue == ~appState.cameraEnabled
        a1 == [appState EXCEPT
                 !.cameraEnabled = nextValue,
                 !.screenEnabled = IF nextValue THEN FALSE ELSE @]
        r  == syncVisualCapture(a1, sock, supported)
    IN  /\ r.pc \in WaitPcs => HasFreeTask
        /\ Settle(tasks, [Handler("camera") EXCEPT !.nextValue = nextValue],
                  r, sock, graceTimer, NoMsg)
        /\ UNCHANGED <<leaked, currentTime, scheduled, audioCaption,
                     statusReceived, riskBadge>>
  /\ sentOn' = Logged(sentOn, out', sock')

\* elements.screenToggle click
ScreenToggleClick ==
  \E supported \in BOOLEAN :
    LET nextValue == ~appState.screenEnabled
        a1 == [appState EXCEPT
                 !.screenEnabled = nextValue,
                 !.cameraEnabled = IF nextValue THEN FALSE ELSE @]
        r  == syncVisualCapture(a1, sock, supported)
    IN  /\ r.pc \in WaitPcs => HasFreeTask
        /\ Settle(tasks, [Handler("screen") EXCEPT !.nextValue = nextValue],
                  r, sock, graceTimer, NoMsg)
        /\ UNCHANGED <<leaked, currentTime, scheduled, audioCaption,
                     statusReceived, riskBadge>>
  /\ sentOn' = Logged(sentOn, out', sock')

\* elements.signIn click (a failed sign-in leaves appState as it was)
SignIn ==
  /\ ~appState.user
  /\ appState' = [appState EXCEPT !.user = TRUE]
  /\ out' = NoMsg
  /\ errorCaption' = NoError
  /\ statusCaption' = NoCaption
  /\ block' = NoBlock
  /\ UNCHANGED snapshotDisabled
  /\ UNCHANGED <<sock, graceTimer, tasks, leaked, currentTime, scheduled, audioCaption,
               statusReceived, riskBadge>>
  /\ sentOn' = Logged(sentOn, out', sock')

\* startSession without its precondition checks.
startSession_NoChecks(a, mode) ==
  [a  |-> [a EXCEPT !.playbackCursor = 0,
                    !.assistantResponseReady = FALSE],
   pc |-> "createSession"]

\* startSession up to its first await: the throw of a failed precondition,
\* or the resets and the token / session-creation calls. mode is
\* elements.mode.value, the skill selected when the button is clicked.
startSession(a, mode) ==
  IF ~a.user
    THEN [a |-> a, pc |-> "throw", error |-> ErrSignIn]
  ELSE IF ~a.micEnabled /\ ~hasVisualSourceEnabledIn(a)
    THEN [a |-> a, pc |-> "throw", error |-> ErrNoSource]
  ELSE IF selectedSkillNeedsVisualSource(mode) /\ ~hasVisualSourceEnabledIn(a)
    THEN [a |-> a, pc |-> "throw", error |-> ErrNeedsVisual]
    ELSE [a  |-> [a EXCEPT !.playbackCursor = 0,
                           !.assistantResponseReady = FALSE],
          pc |-> "createSession"]

\* elements.start click, primaryActionState() = "start"
StartClick ==
  /\ primaryActionState = "start"
  /\ \E mode \in Modes :
       LET r == startSession(appState, mode)
       IN  /\ r.pc \in WaitPcs => HasFreeTask
           /\ Settle(tasks, Handler("start"), r, sock, graceTimer, NoMsg)
           /\ scheduled' = IF r.pc = "throw" THEN scheduled ELSE <<>>
           /\ riskBadge' = IF r.pc = "throw" THEN riskBadge
                                             ELSE setRiskBadge("NORMAL")
  /\ UNCHANGED <<leaked, currentTime, audioCaption, statusReceived>>
  /\ sentOn' = Logged(sentOn, out', sock')

\* elements.start click, primaryActionState() = "confirm"
ConfirmClick ==
  /\ primaryActionState = "confirm"
  /\ appState' = [appState EXCEPT !.assistantResponseReady = FALSE]
  /\ out' = [sock |-> appState.ws, type |-> "client.confirm"]
  /\ errorCaption' = NoError
  /\ statusCaption' = NoCaption
  /\ block' = NoBlock
  /\ UNCHANGED snapshotDisabled
  /\ UNCHANGED <<sock, graceTimer, tasks, leaked, currentTime, scheduled, audioCaption,
               statusReceived, riskBadge>>
  /\ sentOn' = Logged(sentOn, out', sock')

\* elements.start click, primaryActionState() = "stop"
StopClick ==
  /\ primaryActionState = "stop"
  /\ LET r == stopSession(appState, sock, graceTimer, TRUE)
     IN  /\ appState' = r.a
         /\ sock' = r.sk
         /\ graceTimer' = r.gt
         /\ out' = r.out
         /\ errorCaption' = NoError
         /\ statusCaption' = NoCaption
         /\ block' = NoBlock
         /\ snapshotDisabled' = refreshMediaButtons(appState', sock')
  /\ UNCHANGED <<tasks, leaked, currentTime, scheduled, audioCaption,
               statusReceived, riskBadge>>
  /\ sentOn' = Logged(sentOn, out', sock')

\* ------------------------------------------------- promise continuations
\* What a handler does once its enableMicCapture() call has returned: the
\* mic toggle is finished, startSession goes on to syncVisualCapture().
afterEnableMicCapture(task, a, sk, supported) ==
  IF task.kind = "start" THEN syncVisualCapture(a, sk, supported)
                         ELSE [a |-> a, pc |-> "done"]

\* The token and session-creation calls of startSession settle; on success
\* the socket is created and the handler waits for its open event.
CreateSessionDone(task) ==
  /\ task.pc = "createSession"
  /\ \/ /\ \E s \in Sockets : sock[s] = "NONE"
        /\ LET s == FreeSocket
           IN  /\ appState' = [appState EXCEPT !.sessionId = s, !.ws = s]
               /\ sock' = [sock EXCEPT ![s] = "CONNECTING"]
               /\ tasks' = Others(task) (+)
                             SetToBag({[task EXCEPT !.pc = "open", !.ws = s]})
        /\ out' = NoMsg
        /\ errorCaption' = NoError
        /\ statusCaption' = NoCaption
        /\ block' = NoBlock
        /\ UNCHANGED snapshotDisabled
        /\ UNCHANGED graceTimer
     \/ Settle(Others(task), task,
               [a |-> appState, pc |-> "throw", error |-> ErrSessionCreate],
               sock, graceTimer, NoMsg)
  /\ UNCHANGED <<leaked, currentTime, scheduled, audioCaption,
               statusReceived, riskBadge>>
  /\ sentOn' = Logged(sentOn, out', sock')

\* The open event of socket s: waitForSocketOpen resolves and startSession
\* sends client.init on appState.ws, then starts the captures.
SocketOpen(s) ==
  /\ sock[s] = "CONNECTING"
  /\ \E task \in Parked, supported \in BOOLEAN :
       /\ task.pc = "open" /\ task.ws = s
       /\ LET sk == [sock EXCEPT ![s] = "OPEN"]
              w  == appState.ws
              sendThrows == w = 0 \/ sk[w] = "CONNECTING"
              msg == IF ~sendThrows /\ sk[w] = "OPEN"
                       THEN [sock |-> w, type |-> "client.init"]
                       ELSE NoMsg
              m  == IF appState.micEnabled
                      THEN enableMicCapture(appState, sk)
                      ELSE [a |-> appState, pc |-> "done"]
              r  == IF sendThrows
                      THEN [a |-> appState, pc |-> "throw", error |-> ErrSend]
                    ELSE IF m.pc = "done"
                      THEN afterEnableMicCapture(task, m.a, sk, supported)
                      ELSE m
          IN  Settle(Others(task), task, r, sk, graceTimer, msg)
  /\ UNCHANGED <<leaked, currentTime, scheduled, audioCaption,
               statusReceived, riskBadge>>
  /\ sentOn' = Logged(sentOn, out', sock')

\* A newly acquired stream is assigned to the appState field: a stream the
\* field still referenced stays live with no reference left to it.
Acquire(source, wasHeld) ==
  leaked' = IF wasHeld THEN leaked \cup {source} ELSE leaked

\* getUserMedia({audio}) of enableMicCapture resolves.
MicAcquired(task) ==
  /\ task.pc = "getUserMedia.audio"
  /\ Acquire("mic", appState.micStream)
  /\ \E supported \in BOOLEAN :
       LET a1 == [appState EXCEPT !.micStream = TRUE]
       IN  Settle(Others(task), task,
                  afterEnableMicCapture(task, a1, sock, supported),
                  sock, graceTimer, NoMsg)
  /\ UNCHANGED <<currentTime, scheduled, audioCaption,
               statusReceived, riskBadge>>
  /\ sentOn' = Logged(sentOn, out', sock')

\* getUserMedia({video}) of ensureCameraCapture resolves.
CameraAcquired(task) ==
  /\ task.pc = "getUserMedia.video"
  /\ Acquire("cam", appState.camStream)
  /\ LET a1 == [appState EXCEPT !.camStream = TRUE]
     IN  Settle(Others(task), task, syncVisualCaptureEnd(a1, sock),
                sock, graceTimer, NoMsg)
  /\ UNCHANGED <<currentTime, scheduled, audioCaption,
               statusReceived, riskBadge>>
  /\ sentOn' = Logged(sentOn, out', sock')

\* getDisplayMedia of ensureScreenCapture resolves; syncVisualCapture then
\* stops the camera.
ScreenAcquired(task) ==
  /\ task.pc = "getDisplayMedia"
  /\ Acquire("screen", appState.screenStream)
  /\ LET a1 == [appState EXCEPT !.screenStream = TRUE]
     IN  Settle(Others(task), task,
                syncVisualCaptureEnd(stopCameraCapture(a1), sock),
                sock, graceTimer, NoMsg)
  /\ UNCHANGED <<currentTime, scheduled, audioCaption,
               statusReceived, riskBadge>>
  /\ sentOn' = Logged(sentOn, out', sock')

\* The device request a handler waits for is rejected (permission denied,
\* device busy): the handler's catch block runs.
AcquireFailed(task) ==
  /\ task.pc \in {"getUserMedia.audio", "getUserMedia.video",
                  "getDisplayMedia"}
  /\ Settle(Others(task), task,
            [a |-> appState, pc |-> "throw", error |-> ErrDevice],
            sock, graceTimer, NoMsg)
  /\ UNCHANGED <<leaked, currentTime, scheduled, audioCaption,
               statusReceived, riskBadge>>
  /\ sentOn' = Logged(sentOn, out', sock')

\* The "ended" listener of a screen track: the share was stopped from
\* outside the page, for the stream appState references or for a live one
\* it no longer references.
ScreenEnded ==
  /\ \/ appState.screenStream /\ UNCHANGED leaked
     \/ "screen" \in leaked /\ \E more \in BOOLEAN :
          leaked' = IF more THEN leaked ELSE leaked \ {"screen"}
  /\ appState' = stopScreenCapture([appState EXCEPT !.screenEnabled = FALSE],
                                   sock)
  /\ out' = NoMsg
  /\ errorCaption' = NoError
  /\ statusCaption' = ScreenStopped
  /\ block' = NoBlock
  /\ snapshotDisabled' = refreshMediaButtons(appState', sock)
  /\ UNCHANGED <<sock, graceTimer, tasks, currentTime,
                 scheduled, audioCaption,
                 statusReceived, riskBadge>>
  /\ sentOn' = Logged(sentOn, out', sock')

\* -------------------------------------------------------- socket handlers
\* ws.onmessage, server.text
OnServerText(s) ==
  /\ sock[s] = "OPEN"
  /\ appState' = markAssistantResponseReady(appState)
  /\ out' = NoMsg
  /\ errorCaption' = NoError
  /\ statusCaption' = NoCaption
  /\ block' = NoBlock
  /\ UNCHANGED snapshotDisabled
  /\ UNCHANGED <<sock, graceTimer, tasks, leaked, currentTime, scheduled, audioCaption,
               statusReceived, riskBadge>>
  /\ sentOn' = Logged(sentOn, out', sock')

\* ws.onmessage, server.summary and error
OnServerSummaryOrError(s) ==
  /\ sock[s] = "OPEN"
  /\ LET r == stopSession(appState, sock, graceTimer, FALSE)
     IN  /\ appState' = r.a
         /\ sock' = r.sk
         /\ graceTimer' = r.gt
         /\ out' = r.out
  /\ \E isError \in BOOLEAN :
       errorCaption' = IF isError THEN ErrServer ELSE NoError
  /\ statusCaption' = NoCaption
  /\ block' = NoBlock
  /\ snapshotDisabled' = refreshMediaButtons(appState', sock')
  /\ UNCHANGED <<tasks, leaked, currentTime, scheduled, audioCaption,
               statusReceived, riskBadge>>
  /\ sentOn' = Logged(sentOn, out', sock')

\* ws.onmessage that treats a message of unknown type as an error message.
OnUnknownMessage_AsError(s) == OnServerSummaryOrError(s)

\* ws.onmessage, a message whose type no case of the switch names: nothing
\* is done.
OnUnknownMessage(s) ==
  /\ sock[s] = "OPEN"
  /\ out' = NoMsg
  /\ errorCaption' = NoError
  /\ statusCaption' = NoCaption
  /\ block' = NoBlock
  /\ UNCHANGED <<appState, sock, graceTimer, tasks, leaked, currentTime,
                 scheduled, audioCaption, statusReceived, riskBadge,
                 snapshotDisabled>>
  /\ sentOn' = Logged(sentOn, out', sock')

\* ws.onmessage, event.data is not JSON: the catch block appends the Error
\* caption and returns.
OnUnreadableMessage(s) ==
  /\ sock[s] = "OPEN"
  /\ out' = NoMsg
  /\ errorCaption' = ErrUnreadable
  /\ statusCaption' = NoCaption
  /\ block' = NoBlock
  /\ UNCHANGED <<appState, sock, graceTimer, tasks, leaked, currentTime,
                 scheduled, audioCaption, statusReceived, riskBadge,
                 snapshotDisabled>>
  /\ sentOn' = Logged(sentOn, out', sock')

\* ws.onmessage, server.status: the risk badge and the status line are
\* updated; appState is not touched. mode is payload.mode, "" when the
\* message carries none.
OnServerStatus(s, mode) ==
  /\ sock[s] = "OPEN"
  /\ riskBadge' = setRiskBadge(IF mode = "" THEN "NORMAL" ELSE mode)
  /\ statusReceived' = statusReceived \cup {s}
  /\ out' = NoMsg
  /\ errorCaption' = NoError
  /\ statusCaption' = NoCaption
  /\ block' = NoBlock
  /\ UNCHANGED snapshotDisabled
  /\ UNCHANGED <<appState, sock, graceTimer, tasks, leaked, currentTime,
                 scheduled, audioCaption>>
  /\ sentOn' = Logged(sentOn, out', sock')

\* ------------------------------------------------------- capture encoding
\* A sample of a Float32Array: the number n / d in lowest terms, or NaN
\* (d = 0). The arithmetic is exact; the rounding of a sum or a quotient
\* to the nearest float is left out.
RECURSIVE GCD(_, _)
GCD(x, y) == IF y = 0 THEN x ELSE GCD(y, x % y)

Abs(x) == IF x < 0 THEN -x ELSE x

NaN == [n |-> 0, d |-> 0]

isNaN(x) == x.d = 0

Float(n, d) ==
  LET g == GCD(Abs(n), d) IN [n |-> n \div g, d |-> d \div g]

FloatAdd(x, y) ==
  IF isNaN(x) \/ isNaN(y) THEN NaN
                          ELSE Float(x.n * y.d + y.n * x.d, x.d * y.d)

FloatDiv(x, k) == IF isNaN(x) THEN NaN ELSE Float(x.n, x.d * k)

FloatTimes(x, k) == IF isNaN(x) THEN NaN ELSE Float(x.n * k, x.d)

\* x < y of two samples; false when either is NaN.
FloatLess(x, y) == ~isNaN(x) /\ ~isNaN(y) /\ x.n * y.d < y.n * x.d

\* Math.min and Math.max of two samples; NaN when either is NaN.
MathMin(x, y) ==
  IF isNaN(x) \/ isNaN(y) THEN NaN ELSE IF FloatLess(y, x) THEN y ELSE x

MathMax(x, y) ==
  IF isNaN(x) \/ isNaN(y) THEN NaN ELSE IF FloatLess(x, y) THEN y ELSE x

\* Math.round(p / q) for p >= 0 and q > 0: halves round up.
MathRound(p, q) == (2 * p + q) \div (2 * q)

\* The inner loop of downsampleBuffer: the sum and the number of the
\* samples buffer[index] for index from the given one up to
\* nextOffsetBuffer and the end of the buffer (indices from 0, as in the
\* code; the sequence is indexed from 1).
RECURSIVE accumulate(_, _, _, _, _)
accumulate(buffer, index, nextOffsetBuffer, accum, count) ==
  IF index < nextOffsetBuffer /\ index < Len(buffer)
    THEN accumulate(buffer, index + 1, nextOffsetBuffer,
                    FloatAdd(accum, buffer[index + 1]), count + 1)
    ELSE [accum |-> accum, count |-> count]

\* The while loop of downsampleBuffer.
RECURSIVE downsampleLoop(_, _, _, _, _, _, _)
downsampleLoop(buffer, inputRate, outputRate, newLength, output, offsetResult, offsetBuffer) ==
  IF offsetResult < newLength
    THEN LET nextOffsetBuffer ==
               MathRound((offsetResult + 1) * inputRate, outputRate)
             w == accumulate(buffer, offsetBuffer, nextOffsetBuffer,
                             Float(0, 1), 0)
             value == IF w.count # 0 THEN FloatDiv(w.accum, w.count)
                                     ELSE Float(0, 1)
         IN  downsampleLoop(buffer, inputRate, outputRate, newLength,
                            Append(output, value), offsetResult + 1,
                            nextOffsetBuffer)
    ELSE output

\* downsampleBuffer that rounds the length and the window bounds down.
downsampleBuffer_Floor(buffer, inputRate, outputRate) ==
  IF outputRate >= inputRate
    THEN buffer
    ELSE LET newLength == (Len(buffer) * outputRate) \div inputRate
             start(i) == (i * inputRate) \div outputRate
             window(i) ==
               accumulate(buffer, start(i), start(i + 1), Float(0, 1), 0)
         IN  [i \in 1..newLength |->
                IF window(i - 1).count # 0
                  THEN FloatDiv(window(i - 1).accum, window(i - 1).count)
                  ELSE Float(0, 1)]

\* downsampleBuffer: ratio is inputRate / outputRate, so that
\* buffer.length / ratio is buffer.length * outputRate / inputRate.
downsampleBuffer(buffer, inputRate, outputRate) ==
  IF outputRate >= inputRate
    THEN buffer
    ELSE LET newLength == MathRound(Len(buffer) * outputRate, inputRate)
         IN  downsampleLoop(buffer, inputRate, outputRate, newLength,
                            <<>>, 0, 0)

\* The conversion of a number to an element of an Int16Array: the fraction
\* is dropped and the integer wraps to 16 bits; NaN gives 0.
ToInt16(x) ==
  IF isNaN(x)
    THEN 0
    ELSE LET t == IF x.n < 0 THEN -((-x.n) \div x.d) ELSE x.n \div x.d
         IN  ((t + 32768) % 65536) - 32768

\* new Uint8Array(output.buffer): the two bytes of every element, the low
\* byte first.
Uint8Array(int16s) ==
  [k \in 1..(2 * Len(int16s)) |->
     LET u == int16s[(k + 1) \div 2] % 65536
     IN  IF k % 2 = 1 THEN u % 256 ELSE u \div 256]

\* floatToPcm16Bytes that scales without clamping.
floatToPcm16Bytes_NoClamp(floatBuffer) ==
  Uint8Array([index \in 1..Len(floatBuffer) |->
                LET sample == floatBuffer[index]
                IN  ToInt16(IF FloatLess(sample, Float(0, 1))
                              THEN FloatTimes(sample, 32768)
                              ELSE FloatTimes(sample, 32767))])

floatToPcm16Bytes(floatBuffer) ==
  Uint8Array([index \in 1..Len(floatBuffer) |->
                LET sample == MathMax(Float(-1, 1),
                                      MathMin(Float(1, 1),
                                              floatBuffer[index]))
                IN  ToInt16(IF FloatLess(sample, Float(0, 1))
                              THEN FloatTimes(sample, 32768)
                              ELSE FloatTimes(sample, 32767))])

\* The samples of a captured block: -1.5 to 1.5 in steps of one half, and
\* NaN. The blocks have up to MaxBlock samples in place of the 4096 of the
\* script processor.
Samples == {Float(k, 2) : k \in -3..3} \cup {NaN}

Blocks == UNION {[1..len -> Samples] : len \in 0..MaxBlock}

\* The values of audioContext.sampleRate.
SampleRates == {8000, 16000, 24000, 32000, 44100, 48000}

\* The block of the session specifications, where the content of a block
\* plays no part: no samples, from a context that runs at the target rate.
QuietBlock == <<>>

QuietRate == 16000

\* --------------------------------------------------------- media callbacks
\* processor.onaudioprocess, for one captured block. enableMicCapture wires
\* the processor in the step that assigns micStream and disableMicCapture
\* unwires it in the step that clears micStream, so the processor appState
\* references exists exactly when micStream is held. The processor of a
\* stream that was overwritten is never disconnected and keeps firing.
AudioProcess(input, sampleRate) ==
  /\ appState.micStream \/ "mic" \in leaked
  /\ out' = IF sessionRunning
              THEN [sock |-> appState.ws, type |-> "client.audio"]
              ELSE NoMsg
  /\ block' = IF sessionRunning
                THEN LET downsampled ==
                           downsampleBuffer(input, sampleRate, 16000)
                     IN  [input |-> input,
                          sampleRate |-> sampleRate,
                          downsampled |-> downsampled,
                          payload |-> floatToPcm16Bytes(downsampled)]
                ELSE NoBlock
  /\ errorCaption' = NoError
  /\ statusCaption' = NoCaption
  /\ UNCHANGED snapshotDisabled
  /\ UNCHANGED <<appState, sock, graceTimer, tasks, leaked, currentTime,
                 scheduled, audioCaption, statusReceived, riskBadge>>
  /\ sentOn' = Logged(sentOn, out', sock')

\* capturePreviewFrame: elements.preview.srcObject is what
\* updatePreviewSource set it to, the screen stream or else the camera
\* stream appState holds (every assignment of either field is followed by
\* updatePreviewSource in the same step); ready is whether the video
\* element has a current frame and the canvas yields data.
capturePreviewFrame(a, ready) == ready /\ (a.screenStream \/ a.camStream)

\* sendVisualFrame that sends nothing while the risk badge shows REFUSE.
sendVisualFrame_RefuseGated(a, sk) ==
  IF sessionRunningIn(a, sk) /\ riskBadge # "REFUSE"
    THEN [sock |-> a.ws, type |-> "client.video"]
    ELSE NoMsg

\* sendVisualFrame: the message it sends.
sendVisualFrame(a, sk) ==
  IF sessionRunningIn(a, sk) THEN [sock |-> a.ws, type |-> "client.video"]
                             ELSE NoMsg

\* The callback of an interval restartVisualFrameTimer installed and
\* nothing has cleared.
VideoTick ==
  /\ appState.intervals > 0
  /\ \E ready \in BOOLEAN :
       out' = IF capturePreviewFrame(appState, ready)
                THEN sendVisualFrame(appState, sock)
                ELSE NoMsg
  /\ errorCaption' = NoError
  /\ statusCaption' = NoCaption
  /\ block' = NoBlock
  /\ UNCHANGED snapshotDisabled
  /\ UNCHANGED <<appState, sock, graceTimer, tasks, leaked, currentTime,
                 scheduled, audioCaption, statusReceived, riskBadge>>
  /\ sentOn' = Logged(sentOn, out', sock')

\* captureScreenshot that does not wait for a preview frame.
captureScreenshot_NoFrameCheck(a, sk, ready) ==
  IF ~sessionRunningIn(a, sk)
    THEN [out |-> NoMsg, caption |-> SnapNoSession]
  ELSE IF ~hasVisualSourceEnabledIn(a)
    THEN [out |-> NoMsg, caption |-> SnapNoSource]
    ELSE [out |-> sendVisualFrame(a, sk), caption |-> SnapCaptured]

\* captureScreenshot: the message it sends and the caption it appends.
captureScreenshot(a, sk, ready) ==
  IF ~sessionRunningIn(a, sk)
    THEN [out |-> NoMsg, caption |-> SnapNoSession]
  ELSE IF ~hasVisualSourceEnabledIn(a)
    THEN [out |-> NoMsg, caption |-> SnapNoSource]
  ELSE IF ~capturePreviewFrame(a, ready)
    THEN [out |-> NoMsg, caption |-> SnapNoFrame]
    ELSE [out |-> sendVisualFrame(a, sk), caption |-> SnapCaptured]

\* elements.snapshot click; a disabled button delivers no click.
SnapshotClick ==
  /\ ~snapshotDisabled
  /\ \E ready \in BOOLEAN :
       LET r == captureScreenshot(appState, sock, ready)
       IN  /\ out' = r.out
           /\ statusCaption' = r.caption
           /\ block' = NoBlock
  /\ errorCaption' = NoError
  /\ UNCHANGED <<appState, sock, graceTimer, tasks, leaked, currentTime,
                 scheduled, audioCaption, statusReceived, riskBadge,
                 snapshotDisabled>>
  /\ sentOn' = Logged(sentOn, out', sock')

\* ------------------------------------------------------ audio playback
\* Strings are sequences of characters, so that toLowerCase and startsWith
\* are computed. Time is counted in frames of the 24 kHz output rate, so
\* audioBuffer.duration is the frame count.
AudioPcm == <<"a", "u", "d", "i", "o", "/", "p", "c", "m">>

DefaultMime ==
  AudioPcm \o <<";", "r", "a", "t", "e", "=", "2", "4", "0", "0", "0">>

Str(chars) == [isString |-> TRUE, chars |-> chars]

Undefined == [isString |-> FALSE, chars |-> <<"undefined">>]

Null == [isString |-> FALSE, chars |-> <<"null">>]

\* The values of payload.mime the model delivers.
Mimes ==
  {Undefined, Null,
   Str(DefaultMime),
   Str(<<"A", "U", "D", "I", "O", "/", "P", "C", "M">>),
   Str(<<"a", "u", "d", "i", "o", "/", "o", "g", "g">>),
   Str(<<"a", "u", "d", "i", "o", "/", "p", "c">>),
   Str(<<>>)}

lower(c) ==
  CASE c = "A" -> "a" [] c = "U" -> "u" [] c = "D" -> "d" [] c = "I" -> "i"
    [] c = "O" -> "o" [] c = "P" -> "p" [] c = "C" -> "c" [] c = "M" -> "m"
    [] OTHER -> c

toLowerCase(chars) == [i \in DOMAIN chars |-> lower(chars[i])]

startsWith(chars, prefix) ==
  /\ Len(chars) >= Len(prefix)
  /\ SubSeq(chars, 1, Len(prefix)) = prefix

Max(x, y) == IF x >= y THEN x ELSE y

\* queuePlaybackChunk starting every source at the device clock, without
\* the cursor.
queuePlaybackChunk_AtClock(a, sched, now, bytes, mimeArg) ==
  LET mime == IF mimeArg = Undefined THEN Str(DefaultMime) ELSE mimeArg
      frameCount == bytes \div 2
      startAt == now
  IN  IF ~a.audioContext
        THEN [a |-> a, scheduled |-> sched, caption |-> FALSE]
      ELSE IF ~mime.isString \/ ~startsWith(toLowerCase(mime.chars), AudioPcm)
        THEN [a |-> a, scheduled |-> sched, caption |-> TRUE]
      ELSE IF frameCount = 0
        THEN [a |-> a, scheduled |-> sched, caption |-> FALSE]
      ELSE [a |-> [a EXCEPT !.playbackCursor = startAt + frameCount],
            scheduled |-> Append(sched, [now |-> now, startAt |-> startAt,
                                         duration |-> frameCount]),
            caption |-> FALSE]

\* queuePlaybackChunk starting every source one frame ahead of the clock.
queuePlaybackChunk_Ahead(a, sched, now, bytes, mimeArg) ==
  LET mime == IF mimeArg = Undefined THEN Str(DefaultMime) ELSE mimeArg
      frameCount == bytes \div 2
      startAt == Max(now + 1, a.playbackCursor)
  IN  IF ~a.audioContext
        THEN [a |-> a, scheduled |-> sched, caption |-> FALSE]
      ELSE IF ~mime.isString \/ ~startsWith(toLowerCase(mime.chars), AudioPcm)
        THEN [a |-> a, scheduled |-> sched, caption |-> TRUE]
      ELSE IF frameCount = 0
        THEN [a |-> a, scheduled |-> sched, caption |-> FALSE]
      ELSE [a |-> [a EXCEPT !.playbackCursor = startAt + frameCount],
            scheduled |-> Append(sched, [now |-> now, startAt |-> startAt,
                                         duration |-> frameCount]),
            caption |-> FALSE]

\* queuePlaybackChunk without the check of the mime.
queuePlaybackChunk_AnyMime(a, sched, now, bytes, mimeArg) ==
  LET frameCount == bytes \div 2
      startAt == Max(now, a.playbackCursor)
  IN  IF ~a.audioContext
        THEN [a |-> a, scheduled |-> sched, caption |-> FALSE]
      ELSE IF frameCount = 0
        THEN [a |-> a, scheduled |-> sched, caption |-> FALSE]
      ELSE [a |-> [a EXCEPT !.playbackCursor = startAt + frameCount],
            scheduled |-> Append(sched, [now |-> now, startAt |-> startAt,
                                         duration |-> frameCount]),
            caption |-> FALSE]

\* queuePlaybackChunk(base64Data, mime = "audio/pcm;rate=24000"), called at
\* device clock `now` with a payload of `bytes` decoded bytes: the appState
\* and the scheduled sources it leaves, and whether it appended the
\* "unsupported audio format" caption.
queuePlaybackChunk(a, sched, now, bytes, mimeArg) ==
  LET mime == IF mimeArg = Undefined THEN Str(DefaultMime) ELSE mimeArg
      frameCount == bytes \div 2
      startAt == Max(now, a.playbackCursor)
  IN  IF ~a.audioContext
        THEN [a |-> a, scheduled |-> sched, caption |-> FALSE]
      ELSE IF ~mime.isString \/ ~startsWith(toLowerCase(mime.chars), AudioPcm)
        THEN [a |-> a, scheduled |-> sched, caption |-> TRUE]
      ELSE IF frameCount = 0
        THEN [a |-> a, scheduled |-> sched, caption |-> FALSE]
      ELSE [a |-> [a EXCEPT !.playbackCursor = startAt + frameCount],
            scheduled |-> Append(sched, [now |-> now, startAt |-> startAt,
                                         duration |-> frameCount]),
            caption |-> FALSE]

\* ws.onmessage, server.audio
OnServerAudio(s, mime, bytes) ==
  /\ sock[s] = "OPEN"
  /\ LET r == queuePlaybackChunk(markAssistantResponseReady(appState),
                                 scheduled, currentTime, bytes, mime)
     IN  /\ Len(r.scheduled) <= MaxChunks
         /\ appState' = r.a
         /\ scheduled' = r.scheduled
         /\ audioCaption' = (audioCaption \/ r.caption)
  /\ out' = NoMsg
  /\ errorCaption' = NoError
  /\ statusCaption' = NoCaption
  /\ block' = NoBlock
  /\ UNCHANGED snapshotDisabled
  /\ UNCHANGED <<sock, graceTimer, tasks, leaked, currentTime,
                 statusReceived, riskBadge>>
  /\ sentOn' = Logged(sentOn, out', sock')

\* The audio device clock advances.
ClockAdvance ==
  /\ appState.audioContext
  /\ currentTime < MaxClock
  /\ currentTime' = currentTime + 1
  /\ out' = NoMsg
  /\ errorCaption' = NoError
  /\ statusCaption' = NoCaption
  /\ block' = NoBlock
  /\ UNCHANGED snapshotDisabled
  /\ UNCHANGED <<appState, sock, graceTimer, tasks, leaked, scheduled,
                 audioCaption, statusReceived, riskBadge>>
  /\ sentOn' = Logged(sentOn, out', sock')

\* ws.onclose without its stopMedia() call.
onclose_NoStopMedia(a, sk) ==
  setRunningState([a EXCEPT !.ws = 0, !.sessionId = 0], FALSE)

\* ws.onclose
onclose(a, sk) ==
  setRunningState([stopMedia(a, sk) EXCEPT !.ws = 0, !.sessionId = 0], FALSE)

\* The close of a socket whose error event rejects nothing.
SocketClosed_NoReject(s) ==
  /\ sock[s] \in {"CONNECTING", "OPEN", "CLOSING"}
  /\ LET sk == [sock EXCEPT ![s] = "CLOSED"]
     IN  /\ appState' = onclose(appState, sk)
         /\ sock' = [sk EXCEPT ![s] = "NONE"]
         /\ graceTimer' = graceTimer \ {s}
  /\ statusReceived' = statusReceived \ {s}
  /\ out' = NoMsg
  /\ errorCaption' = NoError
  /\ statusCaption' = NoCaption
  /\ block' = NoBlock
  /\ snapshotDisabled' = refreshMediaButtons(appState', sock')
  /\ UNCHANGED <<tasks, leaked, currentTime, scheduled, audioCaption,
               riskBadge>>
  /\ sentOn' = Logged(sentOn, out', sock')

\* Socket s reaches CLOSED (the server or the network closes it, the
\* connection attempt fails, or a close() completes). A startSession still
\* waiting for its open event is rejected by the error event, then the
\* close event runs ws.onclose. The stop timeout of a socket that is no
\* longer OPEN does nothing when it fires, so it is dropped here. A CLOSED
\* socket delivers no further event and nothing refers to it any more
\* (ws.onclose has cleared appState.ws), so its slot is free for the next
\* createLiveSocket(): MaxSockets bounds the sockets alive at one time.
SocketClosed(s) ==
  /\ sock[s] \in {"CONNECTING", "OPEN", "CLOSING"}
  /\ LET sk == [sock EXCEPT ![s] = "CLOSED"]
         gt == graceTimer \ {s}
         waiting == {t \in Parked : t.pc = "open" /\ t.ws = s}
         c  == IF waiting = {}
                 THEN [a |-> appState, sk |-> sk, gt |-> gt]
                 ELSE catch(appState, sk, gt, Handler("start"))
     IN  /\ appState' = onclose(c.a, c.sk)
         /\ sock' = [c.sk EXCEPT ![s] = "NONE"]
         /\ graceTimer' = c.gt
         /\ tasks' = tasks (-) SetToBag(waiting)
         /\ errorCaption' = IF waiting # {} THEN ErrSocket ELSE NoError
         /\ statusCaption' = NoCaption
         /\ block' = NoBlock
         /\ snapshotDisabled' = refreshMediaButtons(appState', sock')
  /\ statusReceived' = statusReceived \ {s}
  /\ out' = NoMsg
  /\ UNCHANGED <<leaked, currentTime, scheduled, audioCaption, riskBadge>>
  /\ sentOn' = Logged(sentOn, out', sock')

\* The 1200 ms timeout set by stopSession fires: the socket, still OPEN, is
\* closed.
GraceTimeout(s) ==
  /\ s \in graceTimer
  /\ graceTimer' = graceTimer \ {s}
  /\ sock' = [sock EXCEPT ![s] = "CLOSING"]
  /\ out' = NoMsg
  /\ errorCaption' = NoError
  /\ statusCaption' = NoCaption
  /\ block' = NoBlock
  /\ UNCHANGED snapshotDisabled
  /\ UNCHANGED <<appState, tasks, leaked, currentTime, scheduled, audioCaption,
               statusReceived, riskBadge>>
  /\ sentOn' = Logged(sentOn, out', sock')

\* ------------------------------------------------------------------ Init
Init ==
  /\ appState = [user |-> FALSE,
                 assistantResponseReady |-> FALSE,
                 ws |-> 0,
                 sessionId |-> 0,
                 audioContext |-> FALSE,
                 micStream |-> FALSE,
                 micEnabled |-> TRUE,
                 camStream |-> FALSE,
                 cameraEnabled |-> FALSE,
                 screenStream |-> FALSE,
                 screenEnabled |-> FALSE,
                 videoTimer |-> FALSE,
                 intervals |-> 0,
                 playbackCursor |-> 0]
  /\ sock = [s \in 1..MaxSockets |-> "NONE"]
  /\ graceTimer = {}
  /\ tasks = EmptyBag
  /\ leaked = {}
  /\ currentTime = 0
  /\ scheduled = <<>>
  /\ audioCaption = FALSE
  /\ statusReceived = {}
  /\ riskBadge = "NORMAL"
  /\ errorCaption = NoError
  /\ snapshotDisabled = TRUE
  /\ statusCaption = NoCaption
  /\ block = NoBlock
  /\ out = NoMsg
  /\ sentOn = NothingSent

\* ------------------------------------------------------------------ Next
Next ==
  \/ SignIn
  \/ MicToggleClick
  \/ CameraToggleClick
  \/ ScreenToggleClick
  \/ StartClick
  \/ ConfirmClick
  \/ StopClick
  \/ \E task \in Parked : CreateSessionDone(task)
  \/ \E s \in Sockets : SocketOpen(s)
  \/ \E task \in Parked : MicAcquired(task)
  \/ \E task \in Parked : CameraAcquired(task)
  \/ \E task \in Parked : ScreenAcquired(task)
  \/ \E task \in Parked : AcquireFailed(task)
  \/ ScreenEnded
  \/ \E s \in Sockets : OnServerText(s)
  \/ \E s \in Sockets : OnServerStatus(s, "")
  \/ \E s \in Sockets : OnServerSummaryOrError(s)
  \/ \E s \in Sockets : OnUnknownMessage(s)
  \/ \E s \in Sockets : OnUnreadableMessage(s)
  \/ \E s \in Sockets : SocketClosed(s)
  \/ \E s \in Sockets : GraceTimeout(s)
  \/ AudioProcess(QuietBlock, QuietRate)
  \/ VideoTick
  \/ SnapshotClick

Spec == Init /\ [][Next]_vars

\* The program with a server whose server.status messages announce every
\* risk level (those of Next carry no mode, which the handler reads as
\* NORMAL), and a user who leaves the screen-share toggle alone: the
\* camera is the visual source.
NextRisk ==
  \/ SignIn
  \/ MicToggleClick
  \/ CameraToggleClick
  \/ StartClick
  \/ ConfirmClick
  \/ StopClick
  \/ \E task \in Parked : CreateSessionDone(task)
  \/ \E s \in Sockets : SocketOpen(s)
  \/ \E task \in Parked : MicAcquired(task)
  \/ \E task \in Parked : CameraAcquired(task)
  \/ \E task \in Parked : AcquireFailed(task)
  \/ \E s \in Sockets : OnServerText(s)
  \/ \E s \in Sockets, mode \in RiskModes \cup {""} : OnServerStatus(s, mode)
  \/ \E s \in Sockets : OnServerSummaryOrError(s)
  \/ \E s \in Sockets : OnUnknownMessage(s)
  \/ \E s \in Sockets : OnUnreadableMessage(s)
  \/ \E s \in Sockets : SocketClosed(s)
  \/ \E s \in Sockets : GraceTimeout(s)
  \/ AudioProcess(QuietBlock, QuietRate)
  \/ VideoTick
  \/ SnapshotClick

SpecRisk == Init /\ [][NextRisk]_vars

\* The close of socket s completes: after close() the browser delivers the
\* close event, at the latest when its closing handshake times out.
CloseCompletes(s) == sock[s] = "CLOSING" /\ SocketClosed(s)

\* Spec with the scheduling the browser guarantees: a pending timeout
\* fires, and a close that was started completes.
SpecLive ==
  /\ Init
  /\ [][Next]_vars
  /\ \A s \in 1..MaxSockets : WF_vars(GraceTimeout(s))
  /\ \A s \in 1..MaxSockets : WF_vars(CloseCompletes(s))

\* The playback scheduler during one session. The session is already
\* running: started with the microphone on, so that enableMicCapture has
\* created the audio context, or with the camera alone.
InitPlayback ==
  /\ \E withMic \in BOOLEAN :
       appState = [user |-> TRUE,
                   assistantResponseReady |-> FALSE,
                   ws |-> 1,
                   sessionId |-> 1,
                   audioContext |-> withMic,
                   micStream |-> withMic,
                   micEnabled |-> withMic,
                   camStream |-> ~withMic,
                   cameraEnabled |-> ~withMic,
                   screenStream |-> FALSE,
                   screenEnabled |-> FALSE,
                   videoTimer |-> ~withMic,
                   intervals |-> IF withMic THEN 0 ELSE 1,
                   playbackCursor |-> 0]
  /\ sock = [s \in 1..MaxSockets |-> IF s = 1 THEN "OPEN" ELSE "NONE"]
  /\ graceTimer = {}
  /\ tasks = EmptyBag
  /\ leaked = {}
  /\ currentTime = 0
  /\ scheduled = <<>>
  /\ audioCaption = FALSE
  /\ statusReceived = {}
  /\ riskBadge = "NORMAL"
  /\ errorCaption = NoError
  /\ snapshotDisabled = refreshMediaButtons(appState, sock)
  /\ statusCaption = NoCaption
  /\ block = NoBlock
  /\ out = NoMsg
  /\ sentOn = [init |-> {1}, stop |-> {}]

NextPlayback ==
  \/ \E s \in Sockets, mime \in Mimes, bytes \in 0..MaxBytes :
       OnServerAudio(s, mime, bytes)
  \/ ClockAdvance
  \/ ConfirmClick
  \/ StopClick
  \/ \E s \in Sockets : SocketClosed(s)
  \/ \E s \in Sockets : GraceTimeout(s)

SpecPlayback == InitPlayback /\ [][NextPlayback]_vars

\* A session with inbound audio, text and status messages, confirmed,
\* stopped and started again, with the microphone toggled during and
\* between sessions. The clock of the audio device stands still, which
\* leaves playbackCursor as the start of every chunk. The audio messages
\* carry no mime or a null one, and one, two or four bytes of payload.
SessionMimes == {Undefined, Null}

SessionBytes == {1, 2, 4}

NextSession ==
  \/ \E s \in Sockets, mime \in SessionMimes, bytes \in SessionBytes :
       OnServerAudio(s, mime, bytes)
  \/ \E s \in Sockets : OnServerText(s)
  \/ \E s \in Sockets : OnServerStatus(s, "")
  \/ ConfirmClick
  \/ StopClick
  \/ StartClick
  \/ MicToggleClick
  \/ \E task \in Parked : CreateSessionDone(task)
  \/ \E s \in Sockets : SocketOpen(s)
  \/ \E task \in Parked : MicAcquired(task)
  \/ \E task \in Parked : CameraAcquired(task)
  \/ \E s \in Sockets : SocketClosed(s)
  \/ \E s \in Sockets : GraceTimeout(s)

SpecSession == InitPlayback /\ [][NextSession]_vars

\* The capture encoder: a running session with the microphone on, whose
\* processor is about to deliver a block of any content at any rate of the
\* context; onaudioprocess then encodes that block.
InitEncode ==
  /\ appState = [user |-> TRUE,
                 assistantResponseReady |-> FALSE,
                 ws |-> 1,
                 sessionId |-> 1,
                 audioContext |-> TRUE,
                 micStream |-> TRUE,
                 micEnabled |-> TRUE,
                 camStream |-> FALSE,
                 cameraEnabled |-> FALSE,
                 screenStream |-> FALSE,
                 screenEnabled |-> FALSE,
                 videoTimer |-> FALSE,
                 intervals |-> 0,
                 playbackCursor |-> 0]
  /\ sock = [s \in 1..MaxSockets |-> IF s = 1 THEN "OPEN" ELSE "NONE"]
  /\ graceTimer = {}
  /\ tasks = EmptyBag
  /\ leaked = {}
  /\ currentTime = 0
  /\ scheduled = <<>>
  /\ audioCaption = FALSE
  /\ statusReceived = {}
  /\ riskBadge = "NORMAL"
  /\ errorCaption = NoError
  /\ snapshotDisabled = TRUE
  /\ statusCaption = NoCaption
  /\ \E input \in Blocks, sampleRate \in SampleRates :
       block = [input |-> input, sampleRate |-> sampleRate,
                downsampled |-> <<>>, payload |-> <<>>]
  /\ out = NoMsg
  /\ sentOn = [init |-> {1}, stop |-> {}]

NextEncode == AudioProcess(block.input, block.sampleRate)

SpecEncode == InitEncode /\ [][NextEncode]_vars

\* Sessions that overlap: the user is signed in with the microphone on,
\* and createLiveSocket() can give out MaxOverlap sockets, so that a start
\* can follow a stop whose socket is still open, or another start that is
\* still in progress. The audio messages carry no mime and two bytes.
InitOverlap ==
  /\ appState = [user |-> TRUE,
                 assistantResponseReady |-> FALSE,
                 ws |-> 0,
                 sessionId |-> 0,
                 audioContext |-> FALSE,
                 micStream |-> FALSE,
                 micEnabled |-> TRUE,
                 camStream |-> FALSE,
                 cameraEnabled |-> FALSE,
                 screenStream |-> FALSE,
                 screenEnabled |-> FALSE,
                 videoTimer |-> FALSE,
                 intervals |-> 0,
                 playbackCursor |-> 0]
  /\ sock = [s \in 1..MaxOverlap |-> "NONE"]
  /\ graceTimer = {}
  /\ tasks = EmptyBag
  /\ leaked = {}
  /\ currentTime = 0
  /\ scheduled = <<>>
  /\ audioCaption = FALSE
  /\ statusReceived = {}
  /\ riskBadge = "NORMAL"
  /\ errorCaption = NoError
  /\ snapshotDisabled = TRUE
  /\ statusCaption = NoCaption
  /\ block = NoBlock
  /\ out = NoMsg
  /\ sentOn = NothingSent

NextOverlap ==
  \/ StartClick
  \/ ConfirmClick
  \/ StopClick
  \/ \E task \in Parked : CreateSessionDone(task)
  \/ \E s \in Sockets : SocketOpen(s)
  \/ \E task \in Parked : MicAcquired(task)
  \/ \E s \in Sockets : OnServerAudio(s, Undefined, 2)
  \/ \E s \in Sockets : OnServerText(s)
  \/ \E s \in Sockets : OnServerSummaryOrError(s)
  \/ \E s \in Sockets : SocketClosed(s)
  \/ \E s \in Sockets : GraceTimeout(s)
  \/ AudioProcess(QuietBlock, QuietRate)

SpecOverlap == InitOverlap /\ [][NextOverlap]_vars

\* ---------------------------------------------------------------- claims
\* A live device stream of the source exists, referenced or not.
Live(source) ==
  \/ source \in leaked
  \/ source = "mic" /\ appState.micStream
  \/ source = "cam" /\ appState.camStream
  \/ source = "screen" /\ appState.screenStream

Waiting(pc) == \E task \in Parked : task.pc = pc

\* C1: cameraEnabled and screenEnabled are never both true, under every
\* interleaving of toggle clicks, acquisition outcomes, externally ended
\* screen shares and session start / stop.
C1_VisualSourcesExclusive ==
  ~(appState.cameraEnabled /\ appState.screenEnabled)

\* C1 witness: in a running session the screen was toggled on while the
\* acquisition started by an earlier camera toggle is still in flight.
C1_Witness ==
  /\ sessionRunning
  /\ appState.screenEnabled
  /\ \E task \in Parked : task.kind = "camera" /\ task.nextValue

\* C2: enabling one visual source releases the other's stream before the
\* new acquisition starts, and a camera stream and a screen stream are never
\* both held.
C2_ReleaseBeforeAcquire ==
  /\ ~(appState.camStream /\ appState.screenStream)
  /\ Waiting("getDisplayMedia") => ~appState.camStream
  /\ Waiting("getUserMedia.video") => ~appState.screenStream

\* A step that runs stopMedia: stopSession (stop click, server.summary,
\* error) or ws.onclose.
StopMediaStep ==
  \/ StopClick
  \/ \E s \in Sockets : OnServerSummaryOrError(s)
  \/ \E s \in Sockets : SocketClosed(s)

\* C3: when stopMedia has run, micEnabled, cameraEnabled and screenEnabled
\* are all off and no frame timer is active.
C3_StopMediaAllOff ==
  [][StopMediaStep =>
       /\ ~appState'.micEnabled
       /\ ~appState'.cameraEnabled
       /\ ~appState'.screenEnabled
       /\ ~appState'.videoTimer]_vars

\* A click on elements.start, whatever primaryActionState() is.
PrimaryClick == StartClick \/ ConfirmClick \/ StopClick

AwaitingConfirm == sessionRunning /\ appState.assistantResponseReady

Running == sessionRunning /\ ~appState.assistantResponseReady

C8_FailureRevertsFlag ==
  [][\A task \in Parked : AcquireFailed(task) =>
       /\ task.kind = "mic" => ~appState'.micEnabled
       /\ task.kind = "camera" => appState'.cameraEnabled = ~task.nextValue
       /\ task.kind = "screen" => appState'.screenEnabled = ~task.nextValue]_vars

\* C9: in a running session with no handler or acquisition in progress,
\* each stream is held iff its flag is on.
C9_FlagsMatchStreams ==
  (sessionRunning /\ Idle) =>
     /\ appState.micStream <=> appState.micEnabled
     /\ appState.camStream <=> appState.cameraEnabled
     /\ appState.screenStream <=> appState.screenEnabled

\* C10: once no session is running and every pending call has settled, no
\* mic, camera or screen stream is held.
C10_NoStreamAfterStop ==
  (appState.ws = 0 /\ Idle) =>
     ~(Live("mic") \/ Live("cam") \/ Live("screen"))

End(chunk) == chunk.startAt + chunk.duration

\* C5: the sources scheduled in one session, in arrival order, have
\* non-decreasing start times and none starts before the previous one ends.
C5_ScheduleOrdered ==
  \A i \in 1..(Len(scheduled) - 1) :
    /\ scheduled[i].startAt <= scheduled[i + 1].startAt
    /\ End(scheduled[i]) <= scheduled[i + 1].startAt

\* C5 witness: three chunks, the second arriving after the first has ended
\* (a gap), the third while the second is still queued.
C5_Witness ==
  /\ Len(scheduled) = 3
  /\ scheduled[2].now > End(scheduled[1])
  /\ scheduled[3].now < End(scheduled[2])

\* The mimes of the model that do not start with audio/pcm.
NonPcmMimes ==
  {Null,
   Str(<<"a", "u", "d", "i", "o", "/", "o", "g", "g">>),
   Str(<<"a", "u", "d", "i", "o", "/", "p", "c">>),
   Str(<<>>)}

\* C6: a server.audio whose mime does not start with audio/pcm leaves
\* playbackCursor and the scheduled sources as they were, and the session
\* running.
C6_NonPcmRejected ==
  [][\A s \in Sockets, mime \in NonPcmMimes, bytes \in 0..MaxBytes :
       OnServerAudio(s, mime, bytes) =>
         /\ appState'.playbackCursor = appState.playbackCursor
         /\ scheduled' = scheduled
         /\ appState'.ws = appState.ws
         /\ sock' = sock]_vars

\* C6 witness: a running session with an audio context has rejected an
\* unsupported chunk after having scheduled a supported one.
C6_Witness ==
  /\ audioCaption
  /\ sessionRunning
  /\ Len(scheduled) = 1
  /\ appState.playbackCursor = End(scheduled[1])

\* C7: a chunk that arrives while the clock has not passed the end of the
\* previous chunk starts exactly at that end: the two occupy one interval
\* whose length is the sum of their durations.
C7_BackToBackContiguous ==
  \A i \in 1..(Len(scheduled) - 1) :
    scheduled[i + 1].now <= End(scheduled[i]) =>
      /\ scheduled[i + 1].startAt = End(scheduled[i])
      /\ End(scheduled[i + 1]) - scheduled[i].startAt
           = scheduled[i].duration + scheduled[i + 1].duration

\* C7 witness: two chunks of the same duration arrived at the same clock
\* reading.
C7_Witness ==
  /\ Len(scheduled) >= 2
  /\ scheduled[2].now = scheduled[1].now
  /\ scheduled[2].duration = scheduled[1].duration
  /\ appState.playbackCursor = scheduled[1].startAt + 2 * scheduled[1].duration

\* The acquisitions of one kind outstanding among the parked handlers b.
Outstanding(b, pc) ==
  LET waiting == {t \in BagToSet(b) : t.pc = pc}
  IN  IF waiting = {} THEN 0
      ELSE IF Cardinality(waiting) = 1
        THEN CopiesIn(CHOOSE t \in waiting : TRUE, b)
        ELSE 2

\* C11: no toggle of a source is processed while an acquisition for that
\* source is in flight, and at most one acquisition per source is
\* outstanding.
C11_NoToggleDuringAcquisition ==
  [][/\ MicToggleClick => ~Waiting("getUserMedia.audio")
     /\ CameraToggleClick => ~Waiting("getUserMedia.video")
     /\ ScreenToggleClick => ~Waiting("getDisplayMedia")
     /\ \A pc \in {"getUserMedia.audio", "getUserMedia.video",
                    "getDisplayMedia"} : Outstanding(tasks', pc) <= 1]_vars

\* C12: client.audio is sent only while the channel is open and micEnabled
\* is true.
C12_AudioOnlyWhileMicEnabled ==
  [][out'.type = "client.audio" =>
       /\ sessionRunning
       /\ out'.sock = appState.ws
       /\ appState.micEnabled]_vars

\* C13: the periodic sampler sends client.video only while the session is
\* running and a visual source is enabled, and a tick with no stream to
\* capture sends nothing and reports no error.
C13_VideoOnlyWhileVisualEnabled ==
  [][VideoTick =>
       /\ out'.type = "client.video" =>
             sessionRunning /\ hasVisualSourceEnabled
       /\ ~(appState.camStream \/ appState.screenStream) =>
             out' = NoMsg /\ errorCaption' = NoError]_vars

\* C14: whenever the channel is open, AwaitingConfirm included, the user
\* has an action that sends client.stop and tears the session down.
C14_StopAlwaysAvailable == sessionRunning => ENABLED StopClick

\* A socket with an armed grace timeout is eventually closed, by the
\* timeout if nothing else closes it.
GraceCloseEventually ==
  \A s \in 1..MaxSockets : (s \in graceTimer) ~> (sock[s] = "NONE")

\* C15: a user stop with the channel open sends client.stop, releases all
\* capture resources (the streams appState holds, the frame timer) and arms
\* the grace timeout, and the channel is eventually closed.
C15_StopEventuallyCloses ==
  /\ [][StopClick =>
         /\ out' = [sock |-> appState.ws, type |-> "client.stop"]
         /\ appState.ws \in graceTimer'
         /\ appState'.ws = 0
         /\ ~appState'.micStream
         /\ ~appState'.camStream
         /\ ~appState'.screenStream
         /\ ~appState'.videoTimer]_vars
  /\ GraceCloseEventually

\* A summary or error message handled on the socket of the running session:
\* what stopSession leaves in appState and of the socket.
SummaryTearsDown ==
  [][\A s \in Sockets :
       (OnServerSummaryOrError(s) /\ sessionRunning /\ s = appState.ws) =>
         /\ appState'.ws = 0
         /\ appState'.sessionId = 0
         /\ ~appState'.assistantResponseReady
         /\ ~appState'.micStream
         /\ ~appState'.camStream
         /\ ~appState'.screenStream
         /\ sock'[s] = "CLOSING"]_vars

\* A close that was started completes.
ClosingEventuallyClosed ==
  \A s \in 1..MaxSockets : (sock[s] = "CLOSING") ~> (sock[s] = "NONE")

C17_MediaOnlyAfterStatus ==
  [][out'.type \in {"client.audio", "client.video"} =>
       out'.sock \in statusReceived]_vars

\* What the claims require of a start request: a signed-in user and at
\* least one capture source enabled.
StartRequires ==
  /\ appState.user
  /\ appState.micEnabled \/ hasVisualSourceEnabled

\* No socket is created in the step.
NoChannelOpened == \A s \in Sockets : sock[s] = "NONE" => sock'[s] = "NONE"

\* C18: a start request makes the session-creation call only if a user is
\* signed in and a capture source is enabled; otherwise it reports an
\* error, makes no session-creation call and opens no channel.
C18_StartPreconditions ==
  [][StartClick =>
       /\ Outstanding(tasks', "createSession")
            > Outstanding(tasks, "createSession") => StartRequires
       /\ ~StartRequires =>
            /\ errorCaption' \in {ErrSignIn, ErrNoSource}
            /\ tasks' = tasks
            /\ NoChannelOpened]_vars

\* C18 witness: a start request has just failed with no user signed in.
C18_Witness ==
  /\ errorCaption = ErrSignIn
  /\ ~appState.user
  /\ Idle
  /\ appState.ws = 0

\* No stream is held by appState and no device request is started in the
\* step.
NoDeviceAcquired ==
  /\ ~appState'.micStream
  /\ ~appState'.camStream
  /\ ~appState'.screenStream
  /\ leaked' = leaked
  /\ \A pc \in {"getUserMedia.audio", "getUserMedia.video",
                 "getDisplayMedia"} :
       Outstanding(tasks', pc) <= Outstanding(tasks, pc)

\* C19: when the token or session-creation call of a start request fails,
\* the error is reported, no channel is created, no device is acquired and
\* the attempt ends torn down: ws null, not running.
C19_SessionCreateFailure ==
  [][\A task \in Parked :
       (CreateSessionDone(task) /\ tasks' = Others(task)) =>
         /\ errorCaption' = ErrSessionCreate
         /\ NoChannelOpened
         /\ NoDeviceAcquired
         /\ out' = NoMsg
         /\ appState'.ws = 0
         /\ appState'.sessionId = 0
         /\ ~sessionRunning']_vars

\* C19 witness: the session-creation call of the only start request has
\* just failed.
C19_Witness ==
  /\ errorCaption = ErrSessionCreate
  /\ appState.ws = 0
  /\ Idle

\* Socket s fails to open while startSession waits for its open event.
OpenFails(s) ==
  /\ sock[s] = "CONNECTING"
  /\ \E task \in Parked : task.pc = "open" /\ task.ws = s
  /\ SocketClosed(s)

\* C20: when the channel fails to open, the attempt is aborted: the error
\* is reported, no client.init is sent, no device is acquired, ws becomes
\* null and the handler is finished; and a channel is only ever created by
\* the session-creation step of a start request, one channel per request.
C20_OpenFailureAborts ==
  [][/\ \A s \in Sockets : OpenFails(s) =>
          /\ errorCaption' = ErrSocket
          /\ out' = NoMsg
          /\ NoDeviceAcquired
          /\ NoChannelOpened
          /\ appState'.ws = 0
          /\ ~\E task \in BagToSet(tasks') : task.pc = "open" /\ task.ws = s
     /\ ~NoChannelOpened =>
          \E task \in Parked :
            /\ task.kind = "start" /\ task.pc = "createSession"
            /\ CreateSessionDone(task)
            /\ Outstanding(tasks', "createSession")
                 < Outstanding(tasks, "createSession")]_vars

\* C20 witness: the socket of the only start request has just failed to
\* open.
C20_Witness ==
  /\ errorCaption = ErrSocket
  /\ appState.ws = 0
  /\ \A s \in Sockets : sock[s] = "NONE"
  /\ Idle

\* The session of appState is torn down.
TornDown ==
  /\ ~appState.micStream
  /\ ~appState.camStream
  /\ ~appState.screenStream
  /\ ~appState.videoTimer
  /\ appState.ws = 0
  /\ appState.sessionId = 0
  /\ ~sessionRunning

\* Socket s, the channel of the current session, closes although the client
\* has not closed it.
UnexpectedClose(s) ==
  /\ appState.ws = s
  /\ sock[s] \in {"CONNECTING", "OPEN"}
  /\ SocketClosed(s)

\* A handler is parked at the session-creation call of a start request.
StartRequested ==
  \E task \in Parked : task.kind = "start" /\ task.pc = "createSession"

CaptureInputs ==
  {[appState EXCEPT !.ws = w, !.cameraEnabled = cam, !.screenEnabled = scr,
                    !.camStream = cs, !.screenStream = ss] :
     w \in {0} \cup Sockets, cam \in BOOLEAN, scr \in BOOLEAN,
     cs \in BOOLEAN, ss \in BOOLEAN}

\* What the claim requires captureScreenshot to send and report.
CaptureContract(a, sk, ready) ==
  LET r == captureScreenshot(a, sk, ready)
      frame == ready /\ (a.camStream \/ a.screenStream)
  IN  IF sessionRunningIn(a, sk) /\ hasVisualSourceEnabledIn(a) /\ frame
        THEN /\ r.out = [sock |-> a.ws, type |-> "client.video"]
             /\ r.caption = SnapCaptured
        ELSE /\ r.out = NoMsg
             /\ r.caption =
                  IF ~sessionRunningIn(a, sk) THEN SnapNoSession
                  ELSE IF ~hasVisualSourceEnabledIn(a) THEN SnapNoSource
                  ELSE SnapNoFrame

\* C27: the on-demand capture sends one client.video on the session's
\* socket when the session is running, a visual source is enabled and a
\* preview frame is available, and leaves the periodic timer as it was;
\* otherwise it sends nothing and reports a message of its own for each of
\* no running session, no visual source enabled, no frame available yet.
C27_CaptureOnDemand ==
  /\ Cardinality({SnapNoSession, SnapNoSource, SnapNoFrame, SnapCaptured}) = 4
  /\ \A a \in CaptureInputs, ready \in BOOLEAN :
       \A sk \in [Sockets -> {"NONE", "CONNECTING", "OPEN", "CLOSING"}] :
         CaptureContract(a, sk, ready)
  /\ [][SnapshotClick =>
          /\ \E ready \in BOOLEAN :
               LET r == captureScreenshot(appState, sock, ready)
               IN  /\ CaptureContract(appState, sock, ready)
                   /\ out' = r.out
                   /\ statusCaption' = r.caption
          /\ appState' = appState
          /\ graceTimer' = graceTimer
          /\ tasks' = tasks]_vars

\* C27 witness: a click on the snapshot button has found no preview frame
\* although the session is running with the camera on and its stream held.
C27_Witness ==
  /\ statusCaption = SnapNoFrame
  /\ out = NoMsg
  /\ sessionRunning
  /\ appState.cameraEnabled /\ appState.camStream

\* A server.status message is processed in the step.
StatusProcessed ==
  \E s \in Sockets, mode \in RiskModes \cup {""} : OnServerStatus(s, mode)

\* Every message the session state allows can be sent, whatever the risk
\* level: audio while a microphone stream is live, video from the frame
\* timer and from the snapshot button while a visual stream is held,
\* confirm in AwaitingConfirm and stop in Running.
FlowOpen ==
  /\ (sessionRunning /\ Live("mic")) =>
        ENABLED (AudioProcess(QuietBlock, QuietRate)
                   /\ out'.type = "client.audio")
  /\ (sessionRunning /\ appState.videoTimer
        /\ (appState.camStream \/ appState.screenStream)) =>
        ENABLED (VideoTick /\ out'.type = "client.video")
  /\ (sessionRunning /\ ~snapshotDisabled
        /\ (appState.camStream \/ appState.screenStream)) =>
        ENABLED (SnapshotClick /\ out'.type = "client.video")
  /\ AwaitingConfirm => ENABLED (ConfirmClick /\ out'.type = "client.confirm")
  /\ Running => ENABLED (StopClick /\ out'.type = "client.stop")

\* C23 as stated: the risk level changes only when a server.status message
\* is processed.
C23_RiskOnlyFromStatus == [][riskBadge' # riskBadge => StatusProcessed]_vars

\* C23 (as amended): the risk level changes only when a server.status
\* message is processed or when a new session is started, which resets it
\* to NORMAL; and it never gates message flow: at every risk level the
\* client can send audio, video, confirm and stop whenever the session
\* state allows it.
C23_RiskOverlay ==
  /\ []FlowOpen
  /\ [][riskBadge' # riskBadge =>
          \/ StatusProcessed
          \/ StartClick /\ riskBadge' = "NORMAL"
                        /\ Outstanding(tasks', "createSession")
                             > Outstanding(tasks, "createSession")]_vars

\* C23 witness: a video frame has just been sent in a running session whose
\* risk level is REFUSE.
C23_Witness ==
  /\ riskBadge = "REFUSE"
  /\ sessionRunning
  /\ out = [sock |-> appState.ws, type |-> "client.video"]

\* C28: an inbound message that is not JSON or whose type is unknown is
\* dropped: the step changes nothing of appState (lifecycle fields,
\* assistantResponseReady, playbackCursor, media flags and handles), of the
\* sockets, timers, parked handlers, live streams, scheduled audio or risk
\* level, sends nothing, and a running session is still running after it.
C28_BadMessageDropped ==
  [][\A s \in Sockets :
       (OnUnknownMessage(s) \/ OnUnreadableMessage(s)) =>
         /\ appState' = appState
         /\ sock' = sock
         /\ graceTimer' = graceTimer
         /\ tasks' = tasks
         /\ leaked' = leaked
         /\ scheduled' = scheduled
         /\ riskBadge' = riskBadge
         /\ snapshotDisabled' = snapshotDisabled
         /\ out' = NoMsg
         /\ sessionRunning => sessionRunning'
         /\ AwaitingConfirm => AwaitingConfirm']_vars

\* C28 witness: an unreadable message has just been dropped in a session
\* that awaits confirmation with microphone and camera capture running.
C28_Witness ==
  /\ errorCaption = ErrUnreadable
  /\ AwaitingConfirm
  /\ appState.micStream /\ appState.camStream /\ appState.videoTimer

\* A server.audio or server.text message is processed on socket s.
InboundReply(s) ==
  \/ OnServerText(s)
  \/ \E mime \in SessionMimes, bytes \in SessionBytes :
       OnServerAudio(s, mime, bytes)

\* C22: an inbound server.audio or server.text in Running moves the
\* controller to AwaitingConfirm and one in AwaitingConfirm leaves it there
\* (a text changes nothing of appState); sending client.confirm happens in
\* AwaitingConfirm and moves it to Running; the controller goes from
\* Running to AwaitingConfirm only by such an inbound message and from
\* AwaitingConfirm to Running only by the confirm.
C22_ConfirmToggle ==
  [][/\ \A s \in Sockets :
          /\ ((Running \/ AwaitingConfirm) /\ InboundReply(s)) =>
               AwaitingConfirm'
          /\ (AwaitingConfirm /\ OnServerText(s)) => appState' = appState
     /\ ConfirmClick =>
          /\ AwaitingConfirm
          /\ Running'
          /\ out' = [sock |-> appState.ws, type |-> "client.confirm"]
     /\ (Running /\ AwaitingConfirm') => \E s \in Sockets : InboundReply(s)
     /\ (AwaitingConfirm /\ Running') => ConfirmClick]_vars

\* C22 witness: the session is back in Running after a confirm, with audio
\* scheduled before it.
C22_Witness ==
  /\ out.type = "client.confirm"
  /\ Running
  /\ Len(scheduled) >= 2

\* A start request is accepted in the step: startSession passes its checks.
StartAccepted ==
  /\ Outstanding(tasks', "createSession") > Outstanding(tasks, "createSession")
  /\ StartClick

\* C24: playbackCursor never decreases except in the step that accepts a
\* start request, which sets it to zero; it changes otherwise only when a
\* server.audio message is processed, and then it grows.
C24_CursorMonotone ==
  [][/\ StartAccepted => appState'.playbackCursor = 0
     /\ appState'.playbackCursor < appState.playbackCursor => StartAccepted
     /\ appState'.playbackCursor > appState.playbackCursor =>
          \E s \in Sockets, mime \in SessionMimes, bytes \in SessionBytes :
            OnServerAudio(s, mime, bytes)]_vars

\* C24 witness: audio was scheduled in a session that has since been
\* stopped and closed, and the microphone was toggled off: the cursor still
\* stands where the last chunk left it.
C24_Witness ==
  /\ appState.playbackCursor >= 2
  /\ Len(scheduled) >= 2
  /\ appState.ws = 0
  /\ \A s \in Sockets : sock[s] = "NONE"
  /\ ~appState.micEnabled

\* C25: while appState holds no session (before a start, after stopSession
\* has completed), a message delivered on a socket that is still open does
\* not advance playbackCursor, schedule audio or set
\* assistantResponseReady.
C25_NothingOutsideSession ==
  [][\A s \in Sockets :
       (appState.ws = 0 /\ InboundReply(s)) =>
         /\ appState'.playbackCursor = appState.playbackCursor
         /\ scheduled' = scheduled
         /\ appState'.assistantResponseReady
              = appState.assistantResponseReady]_vars

\* C26: a message that cannot be sent because appState holds no open
\* socket is reported: a captured audio block that finds no running session
\* appends an Error caption, and so does a frame the timer captured.
C26_SendFailsLoudly ==
  /\ []((~sessionRunning /\ appState.videoTimer
          /\ (appState.camStream \/ appState.screenStream)) =>
          ENABLED (VideoTick /\ errorCaption' # NoError))
  /\ [][(~sessionRunning /\ AudioProcess(QuietBlock, QuietRate)) => errorCaption' # NoError]_vars

\* C29: when the screen share is ended from outside the page during a
\* running session, screenEnabled becomes false, appState holds no screen
\* stream, the frame timer runs afterwards exactly if the camera is
\* enabled, and the session continues: same socket, still open, microphone
\* flag and stream as they were, nothing sent.
C29_ScreenEndedContinues ==
  [][(sessionRunning /\ ScreenEnded) =>
       /\ ~appState'.screenEnabled
       /\ ~appState'.screenStream
       /\ appState'.videoTimer = appState'.cameraEnabled
       /\ appState'.cameraEnabled = appState.cameraEnabled
       /\ appState'.ws = appState.ws
       /\ sock' = sock
       /\ sessionRunning'
       /\ appState'.micStream = appState.micStream
       /\ appState'.micEnabled = appState.micEnabled
       /\ appState'.audioContext = appState.audioContext
       /\ tasks' = tasks
       /\ out' = NoMsg]_vars

\* C29 witness: the screen share of a running session that captures the
\* microphone has just been ended from outside: no visual source and no
\* frame timer are left, and no stream of the screen is live.
C29_Witness ==
  /\ statusCaption = ScreenStopped
  /\ sessionRunning
  /\ appState.micStream
  /\ ~appState.videoTimer
  /\ ~Live("screen")
  /\ Idle

\* Enabling a source whose stream appState holds starts no acquisition and
\* changes nothing.
EnableIdempotent ==
  /\ appState.micStream =>
       enableMicCapture(appState, sock) = [a |-> appState, pc |-> "done"]
  /\ \A supported \in BOOLEAN :
       LET r == syncVisualCapture(appState, sock, supported)
       IN  \/ appState.screenEnabled /\ appState.screenStream
           \/ ~appState.screenEnabled /\ appState.cameraEnabled
                /\ appState.camStream
           => r.pc = "done"

\* Disabling a source that is off changes nothing.
DisableIdempotent ==
  /\ ~appState.micStream => disableMicCapture(appState) = appState
  /\ ~appState.camStream => stopCameraCapture(appState) = appState
  /\ ~appState.screenStream => stopScreenCapture(appState, sock) = appState

\* A second stopMedia or stopSession changes nothing and sends nothing.
StopIdempotent ==
  /\ stopMedia(stopMedia(appState, sock), sock) = stopMedia(appState, sock)
  /\ \A first \in BOOLEAN, second \in BOOLEAN :
       LET r == stopSession(appState, sock, graceTimer, first)
       IN  stopSession(r.a, r.sk, r.gt, second)
             = [a |-> r.a, sk |-> r.sk, gt |-> r.gt, out |-> NoMsg]

\* C30: enable and disable are idempotent per source: enabling a source
\* whose stream is held acquires nothing, and disabling a source that is
\* off, or a second stopMedia or stopSession, changes no state.
C30_Idempotent == EnableIdempotent /\ DisableIdempotent /\ StopIdempotent


\* The input indices the claimed window of output index i covers, for a
\* block of N samples at rate R.
WindowOf(i, N, R) ==
  {j \in 0..(N - 1) :
     MathRound(i * R, 16000) <= j /\ j < MathRound((i + 1) * R, 16000)}

\* The sum of the samples of the buffer at the given indices.
RECURSIVE SumAt(_, _)
SumAt(buffer, W) ==
  IF W = {}
    THEN Float(0, 1)
    ELSE LET j == CHOOSE k \in W : TRUE
         IN  FloatAdd(buffer[j + 1], SumAt(buffer, W \ {j}))

\* C31: downsampleBuffer(buffer, R, 16000) gives, for N samples at a rate
\* R above 16000, exactly round(N / (R / 16000)) samples, the one at index i
\* being the average of the input samples at the indices from
\* round(i * ratio) up to round((i + 1) * ratio), clipped to N; at a rate of
\* 16000 or less it gives the input unchanged.
C31_Downsample ==
  out.type = "client.audio" =>
    LET N == Len(block.input)
        R == block.sampleRate
        output == block.downsampled
    IN  IF R > 16000
          THEN /\ Len(output) = MathRound(N * 16000, R)
               /\ \A i \in 0..(Len(output) - 1) :
                    /\ WindowOf(i, N, R) # {}
                    /\ output[i + 1] =
                         FloatDiv(SumAt(block.input, WindowOf(i, N, R)),
                                  Cardinality(WindowOf(i, N, R)))
          ELSE output = block.input

\* A block of four samples at 24000 Hz became three, the first the average
\* of two different samples and the last from a window clipped to the end
\* of the block.
C31_Witness ==
  /\ out.type = "client.audio"
  /\ block.sampleRate = 24000
  /\ Len(block.input) = 4
  /\ Len(block.downsampled) = 3
  /\ block.input[1] = Float(0, 1)
  /\ block.input[2] = Float(1, 2)
  /\ block.downsampled[1] = Float(1, 4)
  /\ block.downsampled[3] = block.input[4]
  /\ MathRound(3 * 24000, 16000) > 4

\* The 16-bit sample at index i (from 0) of a payload, read low byte
\* first as a signed integer.
Int16At(payload, i) ==
  LET u == payload[2 * i + 1] + 256 * payload[2 * i + 2]
  IN  IF u >= 32768 THEN u - 65536 ELSE u

\* v is the integer part of x * k.
IntegerPartOf(v, x, k) ==
  IF x.n < 0 THEN v * x.d >= x.n * k /\ (v - 1) * x.d < x.n * k
             ELSE v * x.d <= x.n * k /\ (v + 1) * x.d > x.n * k

\* C32: floatToPcm16Bytes gives one 16-bit sample per input sample, each
\* within -32768..32767: a sample of -1 or below gives -32768, one of +1 or
\* above gives 32767, 0 gives 0, a negative sample in between is scaled by
\* 32768 and a non-negative one by 32767.
C32_Quantize ==
  out.type = "client.audio" =>
    /\ Len(block.payload) = 2 * Len(block.downsampled)
    /\ \A i \in 0..(Len(block.downsampled) - 1) :
         LET sample == block.downsampled[i + 1]
             v == Int16At(block.payload, i)
         IN  /\ v \in -32768..32767
             /\ ~isNaN(sample) =>
                  IF sample.n <= -sample.d THEN v = -32768
                  ELSE IF sample.n >= sample.d THEN v = 32767
                  ELSE IF sample.n < 0 THEN IntegerPartOf(v, sample, 32768)
                  ELSE IntegerPartOf(v, sample, 32767)
             /\ sample = Float(0, 1) => v = 0

\* A block at 16000 Hz with a sample above 1, one below -1 and a negative
\* and a positive one in between was encoded.
C32_Witness ==
  /\ out.type = "client.audio"
  /\ block.sampleRate = 16000
  /\ block.downsampled =
       <<Float(3, 2), Float(-3, 2), Float(-1, 2), Float(1, 2)>>
  /\ block.payload = <<255, 127, 0, 128, 0, 192, 255, 63>>


\* Socket s is the channel of a session the user stopped: client.stop was
\* sent on it, it is still open within the grace period, and appState.ws
\* no longer refers to it.
StoppedChannel(s) == s # appState.ws /\ s \in graceTimer

\* A close event or an inbound summary, error, audio or text message on
\* socket s.
ChannelEvent(s) ==
  \/ SocketClosed(s)
  \/ OnServerSummaryOrError(s)
  \/ OnServerAudio(s, Undefined, 2)
  \/ OnServerText(s)

\* C33: an event on the channel of a stopped session leaves a session
\* started afterwards alone: appState.ws, the readyState of its socket, the
\* media streams and timer and assistantResponseReady are what they were.
C33_OldChannelIsolated ==
  [][\A s \in Sockets :
       (sessionRunning /\ StoppedChannel(s) /\ ChannelEvent(s)) =>
         /\ appState'.ws = appState.ws
         /\ sock'[appState.ws] = sock[appState.ws]
         /\ appState'.micStream = appState.micStream
         /\ appState'.camStream = appState.camStream
         /\ appState'.screenStream = appState.screenStream
         /\ appState'.videoTimer = appState.videoTimer
         /\ appState'.assistantResponseReady
              = appState.assistantResponseReady]_vars


\* The sockets that are connecting or open.
LiveChannels == {s \in Sockets : sock[s] \in {"CONNECTING", "OPEN"}}

\* C34: at most one channel is connecting or open, at most one session
\* creation call is outstanding, and every connecting or open socket is
\* the one appState.ws refers to or has a close scheduled.
C34_OneChannel ==
  /\ Cardinality(LiveChannels) <= 1
  /\ Outstanding(tasks, "createSession") <= 1
  /\ \A s \in LiveChannels : s = appState.ws \/ s \in graceTimer


\* C35: client.init is the first message sent on every channel: a
\* client.audio, client.video, client.confirm or client.stop is sent only
\* on a socket client.init has been sent on before.
C35_InitFirst ==
  [][out'.type \in {"client.audio", "client.video", "client.confirm",
                    "client.stop"} =>
       out'.sock \in sentOn.init]_vars

\* C35 witness: client.init has just been sent on a socket that opened
\* while a microphone stream was live and a camera stream was held, so
\* that audio callbacks ran while it was connecting.
C35_Witness ==
  /\ out = [sock |-> appState.ws, type |-> "client.init"]
  /\ Live("mic")
  /\ appState.camStream

\* C36: client.stop is the last message sent on a channel, and is sent on
\* it once: nothing is sent on a socket client.stop has been sent on.
C36_StopLast ==
  [][out'.type # "none" => out'.sock \notin sentOn.stop]_vars

\* C36 witness: client.stop has been sent on a socket that is still open,
\* and a microphone stream is live again.
C36_Witness ==
  /\ \E s \in Sockets : s \in sentOn.stop /\ sock[s] = "OPEN"
  /\ Live("mic")


\* The mimes of the model that start with audio/pcm.
PcmMimes ==
  {Str(DefaultMime), Str(<<"A", "U", "D", "I", "O", "/", "P", "C", "M">>)}

\* C37: a server.audio with an audio/pcm mime and at least one 16-bit
\* sample that arrives on the socket of the running session is scheduled
\* and moves playbackCursor to the end of the chunk, whether or not the
\* session was started with the microphone.
C37_AudioAlwaysPlayed ==
  [][\A s \in Sockets, mime \in PcmMimes, bytes \in 2..MaxBytes :
       (sessionRunning /\ s = appState.ws /\ OnServerAudio(s, mime, bytes))
         => /\ Len(scheduled') = Len(scheduled) + 1
            /\ appState'.playbackCursor =
                 Max(currentTime, appState.playbackCursor) + (bytes \div 2)]_vars


\* C38: a server.audio that is rejected or dropped (a mime that does not
\* start with audio/pcm, less than one 16-bit sample, or no audio context)
\* does not set assistantResponseReady.
C38_ReadyOnlyWhenRendered ==
  [][\A s \in Sockets, mime \in Mimes, bytes \in 0..MaxBytes :
       (/\ ~appState.assistantResponseReady
        /\ mime \in NonPcmMimes \/ bytes < 2 \/ ~appState.audioContext
        /\ OnServerAudio(s, mime, bytes))
         => ~appState'.assistantResponseReady]_vars


\* C39: no micStream, camStream or screenStream reference is overwritten
\* by a newly acquired stream while the stream it held is unreleased: no
\* live stream is without a reference.
C39_NoStreamOverwritten == leaked = {}

\* C40: at most one interval is live, and it is the one appState.videoTimer
\* refers to: with the field null no interval is left running.
C40_OneFrameTimer ==
  appState.intervals = IF appState.videoTimer THEN 1 ELSE 0

\* C40 witness: the session runs with the camera on, its stream held, the
\* frame timer installed and no handler in progress: the timer the toggle
\* installed was replaced when the camera stream arrived.
C40_Witness ==
  /\ sessionRunning
  /\ Idle
  /\ appState.cameraEnabled /\ appState.camStream
  /\ appState.videoTimer
  /\ appState.intervals = 1

====
